---- MODULE Spec2Model ----
(***************************************************************************)
(* A model of the CycleGAN training engine of artReCycleGAN:               *)
(*   nets.py    the composite model (CycleGAN.call), Generator and         *)
(*              Discriminator layer stacks;                                *)
(*   models.py  get_model_metrics, Tester, CycleGAN_trainer and            *)
(*              _cycleGAN_trainer_step.                                    *)
(* _cycleGAN_trainer_step is a tf.function: its body is traced into a      *)
(* graph by the first call, and the graph is what updates the variables.   *)
(* Tensors are symbolic: a tensor carries its shape, one symbolic term per *)
(* sample of the batch, the set of sub-networks its value depends on and   *)
(* the name tf.identity gave it.  The building blocks of layers.py         *)
(* (BaseLayer, ImagePreprocessing, GeneralConvBlock, ...) are modelled by  *)
(* their contracts: an ordered stack of layers, a resize to out_size, and  *)
(* blocks that keep, halve or double the spatial size, for the sizes the   *)
(* halving is exact for.  layers.Conv2D is the Keras layer.                *)
(***************************************************************************)
EXTENDS Integers, Sequences, FiniteSets, TLC

\* ------------------------------------------------------------------ bounds
MaxBatch == 2
MaxDim == 9
MaxVars == 2
MaxSteps == 2
MaxLoss == 1
MaxCalls == 4
MaxChars == 4
MaxLogs == 2
MaxDirCalls == 2
MaxRuns == 2

\* --------------------------------------------------------------- constants
\* nets.py:132  filters = 64 (Discriminator.build)
filters == 64
\* nets.py:143  for i in range(3)
other_blocks == 3
\* nets.py:191  resnet_blocks = 9
resnet_blocks == 9
\* nets.py:32   ImagePreprocessing(out_size=(256,256))
out_size == <<256, 256>>
\* artReCycle.py:36  image_shape = (300, 300, 3)
image_shape == <<300, 300, 3>>

VARIABLES
  \* ---- shapes of the networks (pure functions applied to drawn inputs)
  in_shape,      \* the shape [batch, H, W, 3] of the image batch drawn
  gen_out,       \* <<shape>> once Generator was applied to in_shape, else <<>>
  disc_out,      \* <<shape>> once Discriminator was applied, else <<>>
  cgan_out,      \* <<fake_A shape, fake_B shape>> once CycleGAN was applied
  \* ---- trainer
  net_vars,      \* trainable_variables of each sub-network
  store,         \* the value of every variable: the updates applied to it
  opt_state,     \* the state of every optimizer instance
  pc,            \* 0: outside a step, -1: the step raised, RunPc: the graph
                 \* runs, else the index in StepOrder of the statement
                 \* traced next
  failed_at,     \* where the failing step raised: a statement, RunPc (0: none)
  step_no,       \* steps begun
  input_batch,   \* the pair of batches handed to the step
  tape,          \* the GradientTape: forward passes recorded, gradients taken
  outputs,       \* the outputs of the forward pass
  losses,        \* get_model_metrics(outputs)
  gradient,      \* the gradients taken so far, by group
  traced,        \* @tf.function has traced the body and keeps its graph
  graph,         \* the apply_gradients calls of the graph, in program order
  executed,      \* <<the operations of the graph the last run executed>>
  pre,           \* store and opt_state when the step began
  \* ---- tester
  metrics_mean,  \* name -> the tf.metrics.Mean accumulator (total, count)
  calls,         \* every Tester call so far, in order
  last_result,   \* what the last result() returned (<<>>: none yet)
  \* ---- data
  info,          \* the characters of the dataset info file
  ds_out,        \* <<name, split>> -> what _dataset_files returned or raised
  \* ---- directories
  fs,            \* the model directory, the logs directory, its numbered logs
  dir_calls,     \* calls of _prepare_directories made
  dir_last       \* run -> its call of _prepare_directories under way or
                 \* just ended: where it is, its locals, the directories
                 \* before and after it

shape_vars == <<in_shape, gen_out, disc_out, cgan_out>>
trainer_vars == <<net_vars, store, opt_state, pc, failed_at, step_no,
                  input_batch, tape, outputs, losses, gradient, traced, graph,
                  executed, pre>>
tester_vars == <<metrics_mean, calls, last_result>>
data_vars == <<info, ds_out>>
dir_vars == <<fs, dir_calls, dir_last>>
io_vars == <<data_vars, dir_vars>>
vars == <<shape_vars, trainer_vars, tester_vars, io_vars>>

\* ------------------------------------------------------------------ helpers
\* Output length of a 'same'-padded convolution of stride s: ceil(n / s).
Ceil(n, s) == (n + s - 1) \div s

RECURSIVE Pow2(_)
Pow2(i) == IF i = 0 THEN 1 ELSE 2 * Pow2(i - 1)

RECURSIVE Flatten(_)
Flatten(ss) == IF ss = <<>> THEN <<>> ELSE Head(ss) \o Flatten(Tail(ss))

\* ------------------------------------------------------------------- layers
\* layers.Conv2D(filters, kernel_size, strides, padding='same')
Conv2D(f, k, s) ==
  [type |-> "Conv2D", filters |-> f, kernel_size |-> k, stride |-> s,
   padding |-> "same", pad |-> 0]

\* GeneralConvBlock(filters, kernel_size, stride, pad='same')
GeneralConvBlockSame(f, k, s) ==
  [type |-> "GeneralConvBlock", filters |-> f, kernel_size |-> k, stride |-> s,
   padding |-> "same", pad |-> 0]

\* GeneralConvBlock(filters, kernel_size, stride, pad=p)
GeneralConvBlockPad(f, k, s, p) ==
  [type |-> "GeneralConvBlock", filters |-> f, kernel_size |-> k, stride |-> s,
   padding |-> "fixed", pad |-> p]

\* GeneralConvTransposeBlock(filters, kernel_size, stride)
GeneralConvTransposeBlock(f, k, s) ==
  [type |-> "GeneralConvTransposeBlock", filters |-> f, kernel_size |-> k,
   stride |-> s, padding |-> "same", pad |-> 0]

ResNetBlock(f) ==
  [type |-> "ResNetBlock", filters |-> f, kernel_size |-> 3, stride |-> 1,
   padding |-> "same", pad |-> 0]

\* Layers that keep the shape: activations, normalization, tf.identity.
Pointwise(t) ==
  [type |-> t, filters |-> 0, kernel_size |-> 1, stride |-> 1,
   padding |-> "same", pad |-> 0]

\* layers.Conv2D with padding='same': every spatial length n becomes
\* ceil(n / strides), the channels become filters.
Conv2D_shape(l, s) ==
  <<s[1], Ceil(s[2], l.stride), Ceil(s[3], l.stride), l.filters>>

\* One spatial length through a GeneralConvBlock: with pad='same' the length
\* is divided by the stride (a stride-2 block halves it), else it is the
\* length of a convolution over n padded by pad on both sides.
ConvLen(l, n) ==
  IF l.padding = "same" THEN n \div l.stride
  ELSE ((n + 2 * l.pad - l.kernel_size) \div l.stride) + 1

\* A length a GeneralConvBlock is given its contract for: one its stride
\* divides when pad='same' (the halving is then exact), one the padded kernel
\* fits in otherwise.
ValidLen(l, n) ==
  IF l.padding = "same" THEN n % l.stride = 0
  ELSE n + 2 * l.pad >= l.kernel_size

\* The output shape of one layer on an input of shape s = <<batch, H, W, C>>.
LayerShape(l, s) ==
  CASE l.type = "Conv2D" -> Conv2D_shape(l, s)
    [] l.type = "GeneralConvBlock" ->
         <<s[1], ConvLen(l, s[2]), ConvLen(l, s[3]), l.filters>>
    [] l.type = "GeneralConvTransposeBlock" ->
         <<s[1], s[2] * l.stride, s[3] * l.stride, l.filters>>
    [] OTHER -> s

\* BaseLayer.call: the layers of layers_stack applied in order.
RECURSIVE StackShape(_, _)
StackShape(stack, s) ==
  IF stack = <<>> THEN s
  ELSE StackShape(Tail(stack), LayerShape(Head(stack), s))

\* Discriminator.build with an input block of stride 1.
Discriminator_stack_stride1 ==
  <<Conv2D(filters, 4, 1), Pointwise("LeakyReLU")>>
  \o Flatten([i \in 1..other_blocks |->
        <<Conv2D(filters * Pow2(i), 4, 2),
          Pointwise("InstanceNormalization"),
          Pointwise("LeakyReLU")>>])
  \o <<Conv2D(1, 4, 1), Pointwise("identity")>>

\* Discriminator.build: the layers_stack it assembles.
Discriminator_stack ==
  <<Conv2D(filters, 4, 2), Pointwise("LeakyReLU")>>
  \o Flatten([i \in 1..other_blocks |->
        <<Conv2D(filters * Pow2(i), 4, 2),
          Pointwise("InstanceNormalization"),
          Pointwise("LeakyReLU")>>])
  \o <<Conv2D(1, 4, 1), Pointwise("identity")>>

\* Generator.Encoding.build with a last block of stride 1.
Encoding_stack_stride1 ==
  <<GeneralConvBlockPad(64, 7, 1, 3),
    GeneralConvBlockSame(128, 3, 2),
    GeneralConvBlockSame(256, 3, 1)>>

\* Generator.Encoding.build
Encoding_stack ==
  <<GeneralConvBlockPad(64, 7, 1, 3),
    GeneralConvBlockSame(128, 3, 2),
    GeneralConvBlockSame(256, 3, 2)>>

\* Generator.Transformation.build
Transformation_stack == [i \in 1..resnet_blocks |-> ResNetBlock(256)]

\* Generator.Decoding.build
Decoding_stack ==
  <<GeneralConvTransposeBlock(128, 3, 2),
    GeneralConvTransposeBlock(64, 3, 2),
    GeneralConvBlockPad(3, 7, 1, 3),
    Pointwise("tanh")>>

\* Generator.build: Encoding, Transformation, Decoding.
Generator_stack == Encoding_stack \o Transformation_stack \o Decoding_stack

\* The input shapes valid for a stack: every GeneralConvBlock of the stack is
\* given lengths valid for it.
RECURSIVE ValidShape(_, _)
ValidShape(stack, s) ==
  IF stack = <<>> THEN TRUE
  ELSE /\ (Head(stack).type = "GeneralConvBlock" =>
             ValidLen(Head(stack), s[2]) /\ ValidLen(Head(stack), s[3]))
       /\ ValidShape(Tail(stack), LayerShape(Head(stack), s))

Generator_shape(s) == StackShape(Generator_stack, s)
Discriminator_shape(s) == StackShape(Discriminator_stack, s)

\* ------------------------------------------------------------------ tensors
Tensor(shape, val, deps) ==
  [shape |-> shape, val |-> val, deps |-> deps, name |-> ""]

\* A batch of n images of domain d, each H x W x 3.
Images(d, n, h, w) ==
  Tensor(<<n, h, w, 3>>, [i \in 1..n |-> <<d, i>>], {})

\* ImagePreprocessing(out_size): every image resized to out_size.
ImagePreprocessing(x) ==
  Tensor(<<x.shape[1], out_size[1], out_size[2], x.shape[4]>>,
         [i \in 1..Len(x.val) |-> <<"resize", x.val[i]>>], x.deps)

\* A generator network applied to a batch.
Generator(net, x) ==
  Tensor(Generator_shape(x.shape),
         [i \in 1..Len(x.val) |-> <<net, x.val[i]>>], x.deps \cup {net})

\* A discriminator network applied to a batch: one map of logits per image.
Discriminator(net, x) ==
  Tensor(Discriminator_shape(x.shape),
         [i \in 1..Len(x.val) |-> <<net, x.val[i]>>], x.deps \cup {net})

\* tf.concat((a, b), axis=0)
concat(a, b) ==
  Tensor(<<a.shape[1] + b.shape[1], a.shape[2], a.shape[3], a.shape[4]>>,
         a.val \o b.val, a.deps \cup b.deps)

\* tf.identity(x, name=n)
identity(x, n) == [x EXCEPT !.name = n]

\* DiscriminatorLoss: one scalar from the logits of a [real, fake] batch.
DiscriminatorLoss(decision) ==
  Tensor(<<>>, <<"DiscriminatorLoss", decision.val>>, decision.deps)

\* GeneratorLoss: one scalar from the logits the discriminator gave.
GeneratorLoss(decision) ==
  Tensor(<<>>, <<"GeneratorLoss", decision.val>>, decision.deps)

\* CycleGAN.build: the sub-networks, by attribute.
CycleGAN_build ==
  [generator_AB |-> "Generator_AB", generator_BA |-> "Generator_BA",
   discriminator_A |-> "Discriminator_A", discriminator_B |-> "Discriminator_B"]

Networks == {CycleGAN_build.generator_AB, CycleGAN_build.generator_BA,
             CycleGAN_build.discriminator_A, CycleGAN_build.discriminator_B}

\* CycleGAN.call with the batch of domain B not preprocessed.
CycleGAN_call_raw(inputs) ==
  LET images_A == ImagePreprocessing(inputs[1])
      images_B == inputs[2]
      fake_B == identity(Generator(CycleGAN_build.generator_AB, images_A), "fake_B")
      fake_A == identity(Generator(CycleGAN_build.generator_BA, images_B), "fake_A")
      decision_A == Discriminator(CycleGAN_build.discriminator_A, concat(images_A, fake_A))
      decision_B == Discriminator(CycleGAN_build.discriminator_B, concat(images_B, fake_B))
  IN  <<fake_A, fake_B,
        identity(DiscriminatorLoss(decision_A), "discriminator_A_loss"),
        identity(DiscriminatorLoss(decision_B), "discriminator_B_loss"),
        identity(GeneratorLoss(decision_B), "generator_AB_loss"),
        identity(GeneratorLoss(decision_A), "generator_BA_loss")>>

\* CycleGAN.call with the generator losses taken from the other decision.
CycleGAN_call_swapped(inputs) ==
  LET images_A == ImagePreprocessing(inputs[1])
      images_B == ImagePreprocessing(inputs[2])
      fake_B == identity(Generator(CycleGAN_build.generator_AB, images_A), "fake_B")
      fake_A == identity(Generator(CycleGAN_build.generator_BA, images_B), "fake_A")
      decision_A == Discriminator(CycleGAN_build.discriminator_A, concat(images_A, fake_A))
      decision_B == Discriminator(CycleGAN_build.discriminator_B, concat(images_B, fake_B))
  IN  <<fake_A, fake_B,
        identity(DiscriminatorLoss(decision_A), "discriminator_A_loss"),
        identity(DiscriminatorLoss(decision_B), "discriminator_B_loss"),
        identity(GeneratorLoss(decision_A), "generator_AB_loss"),
        identity(GeneratorLoss(decision_B), "generator_BA_loss")>>

\* CycleGAN.call: the forward pass.
CycleGAN_call(inputs) ==
  LET images_A == ImagePreprocessing(inputs[1])
      images_B == ImagePreprocessing(inputs[2])
      fake_B == identity(Generator(CycleGAN_build.generator_AB, images_A), "fake_B")
      fake_A == identity(Generator(CycleGAN_build.generator_BA, images_B), "fake_A")
      all_for_A == concat(images_A, fake_A)
      decision_A == Discriminator(CycleGAN_build.discriminator_A, all_for_A)
      all_for_B == concat(images_B, fake_B)
      decision_B == Discriminator(CycleGAN_build.discriminator_B, all_for_B)
      discriminator_A_loss == DiscriminatorLoss(decision_A)
      discriminator_B_loss == DiscriminatorLoss(decision_B)
      generator_AB_loss == GeneratorLoss(decision_B)
      generator_BA_loss == GeneratorLoss(decision_A)
  IN  <<fake_A, fake_B,
        identity(discriminator_A_loss, "discriminator_A_loss"),
        identity(discriminator_B_loss, "discriminator_B_loss"),
        identity(generator_AB_loss, "generator_AB_loss"),
        identity(generator_BA_loss, "generator_BA_loss")>>

\* ------------------------------------------------- the shape specification
\* Image sizes drawn: the small ones, the 16 of the end-to-end scenario, the
\* 256 of the preprocessing and the 300 of train().
Dims == (1..MaxDim) \cup {16, out_size[1], image_shape[1]}

ShapeIdle ==
  /\ net_vars = <<>> /\ store = <<>> /\ opt_state = <<>> /\ pc = 0
  /\ failed_at = 0 /\ step_no = 0 /\ input_batch = <<>> /\ tape = <<>>
  /\ outputs = <<>> /\ losses = <<>> /\ gradient = <<>> /\ pre = <<>>
  /\ traced = FALSE /\ graph = <<>> /\ executed = <<>>

TesterIdle == metrics_mean = <<>> /\ calls = <<>> /\ last_result = <<>>

DataIdle == info = <<>> /\ ds_out = <<>>

DirsIdle == fs = <<>> /\ dir_calls = 0 /\ dir_last = <<>>

InitShape ==
  /\ in_shape \in {<<n, h, w, 3>> : n \in 1..MaxBatch, h \in Dims, w \in Dims}
  /\ gen_out = <<>> /\ disc_out = <<>> /\ cgan_out = <<>>
  /\ ShapeIdle /\ TesterIdle /\ DataIdle /\ DirsIdle

\* Generator applied to a batch of a shape in_shape valid for it.
ApplyGenerator ==
  /\ gen_out = <<>>
  /\ ValidShape(Generator_stack, in_shape)
  /\ gen_out' = <<Generator_shape(in_shape)>>
  /\ UNCHANGED <<in_shape, disc_out, cgan_out, trainer_vars, tester_vars, io_vars>>

\* Discriminator applied to a batch of shape in_shape.
ApplyDiscriminator ==
  /\ disc_out = <<>>
  /\ disc_out' = <<Discriminator_shape(in_shape)>>
  /\ UNCHANGED <<in_shape, gen_out, cgan_out, trainer_vars, tester_vars, io_vars>>

\* The composite model applied to a pair of batches of shape in_shape.
ApplyCycleGAN ==
  /\ cgan_out = <<>>
  /\ LET o == CycleGAN_call(<<Images("A", in_shape[1], in_shape[2], in_shape[3]),
                              Images("B", in_shape[1], in_shape[2], in_shape[3])>>)
     IN  cgan_out' = <<o[1].shape, o[2].shape>>
  /\ UNCHANGED <<in_shape, gen_out, disc_out, trainer_vars, tester_vars, io_vars>>

NextShape == ApplyGenerator \/ ApplyDiscriminator \/ ApplyCycleGAN

SpecShape == InitShape /\ [][NextShape]_vars

\* ------------------------------------------------------------ model metrics
None == "None"

Min(a, b) == IF a <= b THEN a ELSE b

\* model_metrics with the two discriminator names exchanged.
model_metrics_exchanged ==
  <<None, None, "dB_loss", "dA_loss", "gAB_loss", "gBA_loss">>

\* _set_model: model_metrics, the name of every output position.
model_metrics ==
  <<None, None, "dA_loss", "dB_loss", "gAB_loss", "gBA_loss">>

\* zip(a, b): pairs up to the shorter length.
zip(a, b) == [i \in 1..Min(Len(a), Len(b)) |-> <<a[i], b[i]>>]

\* get_model_metrics(outputs): a dict from metric name to the output at the
\* name's position; a falsy outputs stands for ten None.
get_model_metrics(outs) ==
  LET o == IF outs = <<>> THEN [i \in 1..10 |-> None] ELSE outs
      names == model_metrics
      pairs == zip(names, o)
      named == {i \in 1..Len(pairs) : pairs[i][1] # None}
  IN  [name \in {pairs[i][1] : i \in named} |->
         pairs[CHOOSE i \in named :
                 /\ pairs[i][1] = name
                 /\ \A j \in named : pairs[j][1] = name => j <= i][2]]

\* ------------------------------------------------------------------ trainer
Groups == {"dA", "dB", "gAB", "gBA"}

\* CycleGAN_trainer.__init__: self.params
CycleGAN_trainer_params(nv) ==
  [dA |-> nv[CycleGAN_build.discriminator_A],
   dB |-> nv[CycleGAN_build.discriminator_B],
   gAB |-> nv[CycleGAN_build.generator_AB],
   gBA |-> nv[CycleGAN_build.generator_BA]]

\* self.optimizers with one optimizer instance stored under the four keys.
CycleGAN_trainer_optimizers_shared == [dA |-> 1, dB |-> 1, gAB |-> 1, gBA |-> 1]

\* CycleGAN_trainer.__init__: self.optimizers, four calls of optimizer(),
\* each creating an instance (numbered in the order of creation).
CycleGAN_trainer_optimizers == [dA |-> 1, dB |-> 2, gAB |-> 3, gBA |-> 4]

Optimizers == {CycleGAN_trainer_optimizers[g] : g \in Groups}

\* A statement of _cycleGAN_trainer_step.
Stmt(op, loss, grad, opt, params) ==
  [op |-> op, loss |-> loss, grad |-> grad, opt |-> opt, params |-> params]

\* _cycleGAN_trainer_step: the statements of its body, in order.
StepOrder ==
  <<Stmt("forward", "", "", "", ""),
    Stmt("parse", "", "", "", ""),
    Stmt("gradient", "dA_loss", "dA", "", "dA"),
    Stmt("gradient", "dB_loss", "dB", "", "dB"),
    Stmt("gradient", "gAB_loss", "gAB", "", "gAB"),
    Stmt("gradient", "gBA_loss", "gBA", "", "gBA"),
    Stmt("apply", "", "dA", "dA", "dA"),
    Stmt("apply", "", "dB", "dB", "dB"),
    Stmt("apply", "", "gAB", "gAB", "gAB"),
    Stmt("apply", "", "gBA", "gBA", "gBA"),
    Stmt("return", "", "", "", "")>>

\* @tf.function: the position of a call that runs the traced graph.
RunPc == Len(StepOrder) + 1

\* tf.GradientTape(persistent=True), before the forward pass.
GradientTape == [persistent |-> TRUE, runs |-> 0, used |-> 0]

\* tape.gradient(target, sources): one gradient per source; None for a
\* source the target does not depend on; the empty list for no sources.
tape_gradient(tp, target, sources) ==
  [i \in 1..Len(sources) |->
     [none |-> sources[i][1] \notin target.deps, target |-> target,
      wrt |-> sources[i]]]

\* The accumulator an optimizer holds for a variable (<<>> before the first).
Slot(os, v) == IF v \in DOMAIN os.slots THEN os.slots[v] ELSE <<>>

\* optimizer.apply_gradients(grads_and_vars), as the body of a tf.function
\* executes it: the pairs with a None gradient are dropped; no pair at all
\* gives a no-op; pairs with only None gradients raise; else the graph gets
\* one update operation for every pair kept and, after them, the increment
\* of the optimizer's iterations.
apply_gradients(opt, gv) ==
  LET kept == SelectSeq(gv, LAMBDA p : ~p[1].none)
  IN  [raised |-> gv # <<>> /\ kept = <<>>, opt |-> opt, pairs |-> kept]

\* The value of every variable of st, named by the number of updates that
\* made it.
Values(st) == [v \in DOMAIN st |-> Len(st[v])]

\* The update operation of one (gradient, variable) pair when the graph
\* runs: the variable is updated from the gradient, evaluated at the values
\* the forward pass read, the optimizer's iterations and its accumulator for
\* the variable.
resource_apply(opt, p, watched, st, os) ==
  LET v == p[2]
      grad == [none |-> p[1].none, target |-> p[1].target, wrt |-> p[1].wrt,
               at |-> watched]
      o == os[opt]
  IN  [store |-> [st EXCEPT ![v] =
                    Append(@, [grad |-> grad, opt |-> opt,
                               iterations |-> o.iterations,
                               slot |-> Slot(o, v)])],
       opt_state |-> [os EXCEPT ![opt] =
          [iterations |-> o.iterations,
           slots |-> [w \in DOMAIN o.slots \cup {v} |->
                        IF w = v THEN Append(Slot(o, v), grad)
                        ELSE o.slots[w]]]]]

\* iterations.assign_add(1) of an optimizer.
assign_add_iterations(opt, os) ==
  [os EXCEPT ![opt].iterations = @ + 1]

\* How far the operations an apply_gradients call put in the graph have
\* come: the gradient they use computed or not, the pairs whose update ran,
\* the increment of iterations run or not.
Progress(grad, pairs, iter) == [grad |-> grad, pairs |-> pairs, iter |-> iter]

\* The states one apply_gradients call of the graph can be in while the
\* graph runs: its updates need its gradients and run in any order, the
\* increment of iterations waits for all of them (control_dependencies).
GroupProgress(a) ==
  {Progress(FALSE, {}, FALSE)}
    \cup {Progress(TRUE, S, FALSE) : S \in SUBSET (1..Len(a.pairs))}
    \cup (IF a.pairs # <<>> THEN {Progress(TRUE, 1..Len(a.pairs), TRUE)}
          ELSE {})

\* Every operation of the call has run.
FullProgress(a) == Progress(TRUE, 1..Len(a.pairs), a.pairs # <<>>)

\* The states the graph g can be in while it runs: nothing ran, or the
\* forward pass ran and the calls, which share no variable and no optimizer,
\* have each come some way.
GraphProgress(g) ==
  {[forward |-> FALSE, calls |-> [j \in 1..Len(g) |-> Progress(FALSE, {}, FALSE)]]}
    \cup {[forward |-> TRUE, calls |-> c] :
            c \in {c \in [1..Len(g) -> UNION {GroupProgress(g[j]) : j \in 1..Len(g)}] :
                     \A j \in 1..Len(g) : c[j] \in GroupProgress(g[j])}}

FullGraphProgress(g) ==
  [forward |-> TRUE, calls |-> [j \in 1..Len(g) |-> FullProgress(g[j])]]

RECURSIVE run_pairs(_, _, _, _, _, _)
\* The updates of the pairs of call a numbered in S, from pair i on.
run_pairs(a, S, i, watched, st, os) ==
  IF i > Len(a.pairs) THEN [store |-> st, opt_state |-> os]
  ELSE IF i \in S
  THEN LET r == resource_apply(a.opt, a.pairs[i], watched, st, os)
       IN  run_pairs(a, S, i + 1, watched, r.store, r.opt_state)
  ELSE run_pairs(a, S, i + 1, watched, st, os)

RECURSIVE run_graph(_, _, _, _, _)
\* The graph g run as far as c says, its calls taken in the order of g.
run_graph(g, c, watched, st, os) ==
  IF g = <<>> THEN [store |-> st, opt_state |-> os]
  ELSE LET r == run_pairs(Head(g), Head(c).pairs, 1, watched, st, os)
           o == IF Head(c).iter
                THEN assign_add_iterations(Head(g).opt, r.opt_state)
                ELSE r.opt_state
       IN  run_graph(Tail(g), Tail(c), watched, r.store, o)

\* The trainer's dictionaries for the networks at hand.
params == CycleGAN_trainer_params(net_vars)
optimizers == CycleGAN_trainer_optimizers

\* The trainable variables of network n when it has k of them.
VarList(n, k) == [i \in 1..k |-> <<n, i>>]

\* The numbers of trainable variables of the networks: one for each, but
\* for at most one network, which has none (misconfigured) or several, up
\* to MaxVars.
VarCounts ==
  {c \in [Networks -> 0..MaxVars] :
     Cardinality({n \in Networks : c[n] # 1}) <= 1}

ShapesIdle ==
  in_shape = <<>> /\ gen_out = <<>> /\ disc_out = <<>> /\ cgan_out = <<>>

\* The state after CycleGAN_trainer.__init__.
Init ==
  /\ net_vars \in {[n \in Networks |-> VarList(n, c[n])] : c \in VarCounts}
  /\ store = [v \in UNION {{net_vars[n][i] : i \in 1..Len(net_vars[n])} :
                            n \in Networks} |-> <<>>]
  /\ opt_state = [o \in Optimizers |-> [iterations |-> 0, slots |-> <<>>]]
  /\ pc = 0 /\ failed_at = 0 /\ step_no = 0
  /\ input_batch = <<>> /\ tape = GradientTape /\ outputs = <<>>
  /\ losses = <<>> /\ gradient = <<>>
  /\ traced = FALSE /\ graph = <<>> /\ executed = <<>>
  /\ pre = [store |-> store, opt_state |-> opt_state]
  /\ ShapesIdle /\ TesterIdle /\ DataIdle /\ DirsIdle

\* The body of _cycleGAN_trainer_step is being traced.
Running == pc \in 1..Len(StepOrder)

\* CycleGAN_trainer.step(input_batch): the call of _cycleGAN_trainer_step,
\* after a step that returned or one that raised.  The call that finds no
\* graph traces the body; a later call runs the graph traced.  The batches
\* of a run have one size (artReCycle.py:37-40, batch=args.batch).
Step(n) ==
  /\ pc \in {0, -1} /\ step_no < MaxSteps
  /\ IF input_batch = <<>> THEN TRUE ELSE n = Len(input_batch[1].val)
  /\ pc' = IF traced THEN RunPc ELSE 1
  /\ step_no' = step_no + 1
  /\ input_batch' = <<Images("A", n, image_shape[1], image_shape[2]),
                      Images("B", n, image_shape[1], image_shape[2])>>
  /\ IF traced THEN UNCHANGED <<tape, outputs, losses, gradient, graph>>
     ELSE /\ tape' = GradientTape /\ outputs' = <<>> /\ losses' = <<>>
          /\ gradient' = <<>> /\ graph' = <<>>
  /\ executed' = <<>>
  /\ pre' = [store |-> store, opt_state |-> opt_state]
  /\ UNCHANGED <<net_vars, store, opt_state, failed_at, traced, shape_vars,
                 tester_vars, io_vars>>

\* with tf.GradientTape(persistent=True) as tape: outputs = cgan(input_batch)
Forward ==
  /\ Running /\ StepOrder[pc].op = "forward"
  /\ tape' = [tape EXCEPT !.runs = @ + 1]
  /\ outputs' = CycleGAN_call(input_batch)
  /\ pc' = pc + 1
  /\ UNCHANGED <<net_vars, store, opt_state, failed_at, step_no, input_batch,
                 losses, gradient, traced, graph, executed, pre, shape_vars,
                 tester_vars, io_vars>>

\* losses = get_model_metrics(outputs)
Parse ==
  /\ Running /\ StepOrder[pc].op = "parse"
  /\ losses' = get_model_metrics(outputs)
  /\ pc' = pc + 1
  /\ UNCHANGED <<net_vars, store, opt_state, failed_at, step_no, input_batch,
                 tape, outputs, gradient, traced, graph, executed, pre,
                 shape_vars, tester_vars, io_vars>>

\* A gradient statement that records the forward pass again before it takes
\* the gradient.
Gradient_reforward ==
  /\ pc \in 1..Len(StepOrder) /\ StepOrder[pc].op = "gradient"
  /\ LET s == StepOrder[pc]
         tp == [tape EXCEPT !.runs = @ + 1]
     IN  /\ gradient' =
               [g \in DOMAIN gradient \cup {s.grad} |->
                  IF g = s.grad
                  THEN tape_gradient(tp, losses[s.loss], params[s.params])
                  ELSE gradient[g]]
         /\ tape' = [tp EXCEPT !.used = @ + 1]
         /\ pc' = pc + 1 /\ UNCHANGED failed_at
  /\ UNCHANGED <<net_vars, store, opt_state, step_no, input_batch, outputs,
                 losses, traced, graph, executed, pre, shape_vars,
                 tester_vars, io_vars>>

\* gradient_X = tape.gradient(losses[...], params[...]); a tape that is not
\* persistent raises at its second use.
Gradient ==
  /\ Running /\ StepOrder[pc].op = "gradient"
  /\ LET s == StepOrder[pc]
     IN  IF ~tape.persistent /\ tape.used > 0
         THEN /\ pc' = -1 /\ failed_at' = pc
              /\ UNCHANGED <<tape, gradient>>
         ELSE /\ gradient' =
                   [g \in DOMAIN gradient \cup {s.grad} |->
                      IF g = s.grad
                      THEN tape_gradient(tape, losses[s.loss], params[s.params])
                      ELSE gradient[g]]
              /\ tape' = [tape EXCEPT !.used = @ + 1]
              /\ pc' = pc + 1 /\ UNCHANGED failed_at
  /\ UNCHANGED <<net_vars, store, opt_state, step_no, input_batch, outputs,
                 losses, traced, graph, executed, pre, shape_vars,
                 tester_vars, io_vars>>

\* An apply_gradients statement that updates the variables as soon as the
\* statement is executed, as a step that is not a tf.function does.
Apply_eager ==
  /\ pc \in 1..Len(StepOrder) /\ StepOrder[pc].op = "apply"
  /\ LET s == StepOrder[pc]
         a == apply_gradients(optimizers[s.opt],
                              zip(gradient[s.grad], params[s.params]))
         c == <<FullProgress(a)>>
         r == run_graph(<<a>>, c, Values(store), store, opt_state)
     IN  IF a.raised THEN /\ pc' = -1 /\ failed_at' = pc
                          /\ UNCHANGED <<graph, store, opt_state>>
         ELSE /\ store' = r.store /\ opt_state' = r.opt_state
              /\ UNCHANGED graph
              /\ pc' = pc + 1 /\ UNCHANGED failed_at
  /\ UNCHANGED <<net_vars, step_no, input_batch, tape, outputs, losses,
                 gradient, traced, executed, pre, shape_vars, tester_vars,
                 io_vars>>

\* optimizers[X].apply_gradients(zip(gradient_X, params[X])): the statement
\* puts the update operations in the graph and updates nothing.
Apply ==
  /\ Running /\ StepOrder[pc].op = "apply"
  /\ LET s == StepOrder[pc]
         a == apply_gradients(optimizers[s.opt],
                              zip(gradient[s.grad], params[s.params]))
     IN  IF a.raised THEN pc' = -1 /\ failed_at' = pc /\ UNCHANGED graph
         ELSE /\ graph' = Append(graph, [group |-> s.params, opt |-> a.opt,
                                          pairs |-> a.pairs])
              /\ pc' = pc + 1 /\ UNCHANGED failed_at
  /\ UNCHANGED <<net_vars, store, opt_state, step_no, input_batch, tape,
                 outputs, losses, gradient, traced, executed, pre, shape_vars,
                 tester_vars, io_vars>>

\* return outputs: the tracing ends, the graph is kept and the call runs it.
Return ==
  /\ Running /\ StepOrder[pc].op = "return"
  /\ traced' = TRUE
  /\ pc' = RunPc
  /\ UNCHANGED <<net_vars, store, opt_state, failed_at, step_no, input_batch,
                 tape, outputs, losses, gradient, graph, executed, pre,
                 shape_vars, tester_vars, io_vars>>

\* The graph runs to its end and the step returns the outputs: the forward
\* pass reads the variables, then every update and every increment runs.
RunGraph ==
  /\ pc = RunPc
  /\ LET c == FullGraphProgress(graph)
         r == run_graph(graph, c.calls, Values(store), store, opt_state)
     IN  /\ store' = r.store /\ opt_state' = r.opt_state
         /\ executed' = <<[watched |-> Values(store), forward |-> c.forward,
                           calls |-> c.calls]>>
  /\ pc' = 0
  /\ UNCHANGED <<net_vars, failed_at, step_no, input_batch, tape, outputs,
                 losses, gradient, traced, graph, pre, shape_vars,
                 tester_vars, io_vars>>

\* The run of the graph raises: one of its operations fails when the
\* operations c have run, or an interrupt is raised when the run is over
\* and every operation has run.  The exception leaves the step, which
\* handles none.  The behaviours followed have one failing step.
RunGraphInterrupted ==
  /\ pc = RunPc /\ failed_at = 0
  /\ \E c \in GraphProgress(graph) :
       LET r == run_graph(graph, c.calls, Values(store), store, opt_state)
       IN  /\ store' = r.store /\ opt_state' = r.opt_state
           /\ executed' = <<[watched |-> IF c.forward THEN Values(store) ELSE <<>>,
                             forward |-> c.forward, calls |-> c.calls]>>
  /\ pc' = -1 /\ failed_at' = pc
  /\ UNCHANGED <<net_vars, step_no, input_batch, tape, outputs, losses,
                 gradient, traced, graph, pre, shape_vars, tester_vars,
                 io_vars>>

\* The tracing is interrupted, or the statement about to be traced raises:
\* the exception leaves _cycleGAN_trainer_step, which handles none, and no
\* graph is kept.
Interrupt ==
  /\ Running /\ failed_at = 0
  /\ pc' = -1 /\ failed_at' = pc
  /\ UNCHANGED <<net_vars, store, opt_state, step_no, input_batch, tape,
                 outputs, losses, gradient, traced, graph, executed, pre,
                 shape_vars, tester_vars, io_vars>>

Next ==
  \/ \E n \in 1..MaxBatch : Step(n)
  \/ Forward
  \/ Parse
  \/ Gradient
  \/ Apply
  \/ Return
  \/ RunGraph
  \/ RunGraphInterrupted
  \/ Interrupt

Spec == Init /\ [][Next]_vars

\* ------------------------------------------------------------------- tester
\* tf.metrics.Mean(name): the accumulator, empty.
Mean == [total |-> 0, count |-> 0]

\* Mean.update_state(value)
update_state(m, value) == [total |-> m.total + value, count |-> m.count + 1]

\* Mean.result(): total / count as a fraction, 0 for an empty accumulator.
result(m) ==
  IF m.count = 0 THEN [num |-> 0, den |-> 1]
  ELSE [num |-> m.total, den |-> m.count]

\* A reset that leaves the accumulator as it is.
reset_states_kept(m) == m

\* Mean.reset_states()
reset_states(m) == Mean

\* The outputs a model under test may return: two images and four losses.
TesterOutputs ==
  {<<"fake_A", "fake_B", a, b, a + 1, b + 2>> :
     a \in 0..MaxLoss, b \in 0..MaxLoss}

\* Tester.__init__
InitTester ==
  /\ metrics_mean = [name \in DOMAIN get_model_metrics(<<>>) |-> Mean]
  /\ calls = <<>>
  /\ last_result = <<>>
  /\ ShapesIdle /\ ShapeIdle /\ DataIdle /\ DirsIdle

\* Tester.step(input_batch), o the outputs of the model on the batch.
Tester_step(o) ==
  /\ Len(calls) < MaxCalls
  /\ LET metrics == get_model_metrics(o)
     IN  metrics_mean' = [name \in DOMAIN metrics_mean |->
                            update_state(metrics_mean[name], metrics[name])]
  /\ calls' = Append(calls, [op |-> "step", outputs |-> o])
  /\ UNCHANGED <<last_result, shape_vars, trainer_vars, io_vars>>

\* Tester.result()
Tester_result ==
  /\ Len(calls) < MaxCalls
  /\ last_result' = <<[name \in DOMAIN metrics_mean |->
                         result(metrics_mean[name])]>>
  /\ metrics_mean' = [name \in DOMAIN metrics_mean |->
                        reset_states(metrics_mean[name])]
  /\ calls' = Append(calls, [op |-> "result", outputs |-> <<>>])
  /\ UNCHANGED <<shape_vars, trainer_vars, io_vars>>

NextTester ==
  \/ \E o \in TesterOutputs : Tester_step(o)
  \/ Tester_result

SpecTester == InitTester /\ [][NextTester]_vars

\* -------------------------------------------------- claims on the tester
\* The output position each loss name stands for.
LossPos == [dA_loss |-> 3, dB_loss |-> 4, gAB_loss |-> 5, gBA_loss |-> 6]

\* The index of the last result() call among the first k calls (0: none).
LastResultBefore(k) ==
  LET rs == {i \in 1..k : calls[i].op = "result"}
  IN  IF rs = {} THEN 0 ELSE CHOOSE i \in rs : \A j \in rs : j <= i

RECURSIVE SumFrom(_, _, _)
\* The sum of output position pos over calls from..to (all of them steps).
SumFrom(from, to, pos) ==
  IF from > to THEN 0
  ELSE calls[from].outputs[pos] + SumFrom(from + 1, to, pos)

\* C10: result() returns, for each of the four loss names, the mean of the
\* values step() accumulated since the previous result() (or construction),
\* (0 when there were none), and leaves every accumulator cleared; between
\* calls each accumulator holds exactly the values since the last result().
C10_ResultIsMeanSinceLastResult ==
  /\ DOMAIN metrics_mean = {"dA_loss", "dB_loss", "gAB_loss", "gBA_loss"}
  /\ \A name \in DOMAIN LossPos :
       LET from == LastResultBefore(Len(calls)) + 1
       IN  metrics_mean[name] =
             [total |-> SumFrom(from, Len(calls), LossPos[name]),
              count |-> Len(calls) - from + 1]
  /\ (calls # <<>> /\ calls[Len(calls)].op = "result") =>
       /\ DOMAIN last_result[1] = DOMAIN LossPos
       /\ \A name \in DOMAIN LossPos :
            LET from == LastResultBefore(Len(calls) - 1) + 1
                to == Len(calls) - 1
            IN  /\ last_result[1][name] =
                     IF from > to THEN [num |-> 0, den |-> 1]
                     ELSE [num |-> SumFrom(from, to, LossPos[name]),
                           den |-> to - from + 1]
                /\ metrics_mean[name] = [total |-> 0, count |-> 0]

C10_Witness ==
  /\ Len(calls) = 4
  /\ calls[1].op = "step" /\ calls[1].outputs[3] = 1
  /\ calls[2].op = "result"
  /\ calls[3].op = "step" /\ calls[3].outputs[3] = 0
  /\ calls[4].op = "result"
  /\ last_result[1]["dA_loss"] = [num |-> 0, den |-> 1]
  /\ last_result[1]["gBA_loss"] = [num |-> calls[3].outputs[6], den |-> 1]

\* --------------------------------------------------------------------- data
\* The characters an info file is made of: a letter, the path separator and
\* the line break.
Chars == {"a", "/", "\n"}

\* data.datasets: dataset name -> info file, as (directory, file name); two
\* of its entries.
datasets == [monet |-> <<"monet", "dataset.txt">>,
             foto |-> <<"foto", "dataset.txt">>]

\* os.path.dirname(info_file), as a sequence of characters.
dirname(info_file) == <<info_file[1]>>

\* str.splitlines(): the lines between line breaks; a last line break opens
\* no further line.
RECURSIVE splitlines_from(_, _)
splitlines_from(s, cur) ==
  IF s = <<>> THEN (IF cur = <<>> THEN <<>> ELSE <<cur>>)
  ELSE IF Head(s) = "\n" THEN <<cur>> \o splitlines_from(Tail(s), <<>>)
  ELSE splitlines_from(Tail(s), Append(cur, Head(s)))

splitlines(s) == splitlines_from(s, <<>>)

\* os.path.join(dir, f): f itself when it is absolute, else dir + '/' + f.
path_join(dir, f) ==
  IF f # <<>> /\ f[1] = "/" THEN f ELSE dir \o <<"/">> \o f

\* The loop leaving split_i at the last empty line.
split_index_last(files) ==
  LET empty == {i \in 0..(Len(files) - 1) : Len(files[i + 1]) = 0}
  IN  IF empty = {} THEN Len(files) - 1
      ELSE CHOOSE i \in empty : \A j \in empty : j <= i

\* for split_i in range(len(files)): if len(files[split_i]) == 0: break
\* The (0-based) value split_i is left with: the first empty line, else the
\* last index; -1 stands for the name left unbound by an empty range.
split_index(files) ==
  LET empty == {i \in 0..(Len(files) - 1) : Len(files[i + 1]) = 0}
  IN  IF empty = {} THEN Len(files) - 1
      ELSE CHOOSE i \in empty : \A j \in empty : i <= j

\* _dataset_files(name, split) on an info file of the given characters.
dataset_files(name, split, content) ==
  IF name \notin DOMAIN datasets \/ split \notin {"train", "test"}
  THEN [raised |-> "ValueError", files |-> <<>>, count |-> 0]
  ELSE LET dataset_dir == dirname(datasets[name])
           files == splitlines(content)
           split_i == split_index(files)
           part == IF split = "train" THEN SubSeq(files, 1, split_i)
                   ELSE SubSeq(files, split_i + 2, Len(files))
           paths == [i \in 1..Len(part) |-> path_join(dataset_dir, part[i])]
       IN  IF split_i < 0
           THEN [raised |-> "UnboundLocalError", files |-> <<>>, count |-> 0]
           ELSE [raised |-> "", files |-> paths, count |-> Len(paths)]

\* Every sequence of at most n characters.
RECURSIVE Contents(_)
Contents(n) ==
  IF n = 0 THEN {<<>>}
  ELSE LET shorter == Contents(n - 1)
       IN  shorter \cup {Append(s, c) : s \in shorter, c \in Chars}

TrainerIdle == ShapeIdle

InitData ==
  /\ info \in Contents(MaxChars)
  /\ ds_out = <<>>
  /\ ShapesIdle /\ TrainerIdle /\ TesterIdle /\ DirsIdle

\* A call of _dataset_files(name, split).
DatasetFiles(name, split) ==
  /\ <<name, split>> \notin DOMAIN ds_out
  /\ ds_out' = [k \in DOMAIN ds_out \cup {<<name, split>>} |->
                  IF k = <<name, split>> THEN dataset_files(name, split, info)
                  ELSE ds_out[k]]
  /\ UNCHANGED <<info, shape_vars, trainer_vars, tester_vars, dir_vars>>

NextData ==
  \E name \in {"monet", "unknown"}, split \in {"train", "test", "valid"} :
    DatasetFiles(name, split)

SpecData == InitData /\ [][NextData]_vars

\* ---------------------------------------------------- claims on the data
\* The lines of the info file and the (1-based) place of its first empty one.
InfoLines == splitlines(info)

HasEmptyLine == \E i \in 1..Len(InfoLines) : InfoLines[i] = <<>>

FirstEmpty ==
  CHOOSE i \in 1..Len(InfoLines) :
    InfoLines[i] = <<>> /\ \A j \in 1..(i - 1) : InfoLines[j] # <<>>

\* C11: for an info file with an empty line, 'train' returns the entries
\* before the first empty line and 'test' the entries after it, each joined
\* to the dataset directory, with counts equal to the entries returned;
\* together they are every line but the separator, each once.
C11_SplitsAtFirstEmptyLine ==
  HasEmptyLine =>
    LET k == FirstEmpty
        n == Len(InfoLines)
        dir == <<"monet">>
    IN  /\ <<"monet", "train">> \in DOMAIN ds_out =>
             LET r == ds_out[<<"monet", "train">>]
             IN  /\ r.raised = "" /\ r.count = k - 1 /\ Len(r.files) = k - 1
                 /\ \A i \in 1..(k - 1) :
                      r.files[i] = path_join(dir, InfoLines[i])
        /\ <<"monet", "test">> \in DOMAIN ds_out =>
             LET r == ds_out[<<"monet", "test">>]
             IN  /\ r.raised = "" /\ r.count = n - k /\ Len(r.files) = n - k
                 /\ \A i \in 1..(n - k) :
                      r.files[i] = path_join(dir, InfoLines[k + i])
        /\ ({<<"monet", "train">>, <<"monet", "test">>} \subseteq DOMAIN ds_out
              => ds_out[<<"monet", "train">>].count
                   + ds_out[<<"monet", "test">>].count = n - 1)

C11_Witness ==
  /\ info = <<"a", "\n", "\n", "\n">>
  /\ {<<"monet", "train">>, <<"monet", "test">>} \subseteq DOMAIN ds_out
  /\ ds_out[<<"monet", "train">>].files = <<(<<"monet", "/", "a">>)>>
  /\ ds_out[<<"monet", "test">>].files = <<(<<"monet", "/">>)>>
  /\ ds_out[<<"monet", "test">>].count = 1

\* -------------------------------------------------------------- directories
\* The directories are the model directory and the logs directory of one
\* model name, and the numbered log directories in the logs directory.  A
\* log directory is empty, as _prepare_directories creates it.  A directory
\* removed and created again at the same path is another directory: a
\* descriptor opened on the removed one stays on it, and finds it empty.

\* dirs = (model_path, logs_path)
dirs == <<"model_path", "logs_path">>

\* os.path.exists(d)
path_exists(f, d) == IF d = "model_path" THEN f.models ELSE f.logs

\* shutil.rmtree(d): orig_st = os.lstat(path); raises when d is missing.
lstat(f, d) ==
  [raised |-> IF path_exists(f, d) THEN "" ELSE "FileNotFoundError"]

\* shutil.rmtree(d): fd = os.open(path, os.O_RDONLY); raises when d is
\* missing.
open(f, d) ==
  [raised |-> IF path_exists(f, d) THEN "" ELSE "FileNotFoundError"]

\* shutil.rmtree(d): os.path.samestat(orig_st, os.fstat(fd)), the results it
\* may give.  When the directory of orig_st was removed since (gone), the
\* one opened is another directory, and the file system may have given it
\* the inode number of the removed one.
samestat(gone) == IF gone THEN BOOLEAN ELSE {TRUE}

\* shutil.rmtree(d): os.scandir(fd), the entries of the directory the
\* descriptor is open on; none once that directory was removed (gone).
scandir(f, d, gone) == IF ~gone /\ d = "logs_path" THEN f.log ELSE {}

\* shutil.rmtree(d): entry.stat(follow_symlinks=False), relative to the
\* descriptor of d; raises when d was removed or the entry is missing.
entry_stat(f, gone, e) ==
  [raised |-> IF ~gone /\ e \in f.log THEN "" ELSE "FileNotFoundError"]

\* shutil.rmtree(d): os.open(entry.name, os.O_RDONLY, dir_fd=topfd); raises
\* when d was removed or the entry is missing.
entry_open(f, gone, e) ==
  [raised |-> IF ~gone /\ e \in f.log THEN "" ELSE "FileNotFoundError"]

\* shutil.rmtree(d): os.rmdir(entry.name, dir_fd=topfd), which removes the
\* entry of that name in the directory the descriptor is open on; raises
\* when d was removed or the entry is missing.
entry_rmdir(f, gone, e) ==
  IF ~gone /\ e \in f.log
  THEN [raised |-> "", fs |-> [f EXCEPT !.log = @ \ {e}]]
  ELSE [raised |-> "FileNotFoundError", fs |-> f]

\* shutil.rmtree(d), last part: os.rmdir(path), of the directory now at the
\* path; raises when d is missing or has an entry.
rmdir(f, d) ==
  IF ~path_exists(f, d) THEN [raised |-> "FileNotFoundError", fs |-> f]
  ELSE IF d = "logs_path" /\ f.log # {} THEN [raised |-> "OSError", fs |-> f]
  ELSE [raised |-> "",
        fs |-> IF d = "model_path" THEN [f EXCEPT !.models = FALSE]
               ELSE [f EXCEPT !.logs = FALSE]]

\* os.makedirs(d): raises when d exists (a missing parent directory is
\* created first, and never removed).
makedirs(f, d) ==
  IF path_exists(f, d) THEN [raised |-> "FileExistsError", fs |-> f]
  ELSE [raised |-> "",
        fs |-> IF d = "model_path" THEN [f EXCEPT !.models = TRUE]
               ELSE [f EXCEPT !.logs = TRUE]]

\* os.path.exists(os.path.join(logs_path, str(i)))
log_exists(f, i) == f.logs /\ i \in f.log

\* os.mkdir(os.path.join(logs_path, str(i))): raises when the logs
\* directory is missing or the log directory exists.
mkdir(f, i) ==
  IF ~f.logs THEN [raised |-> "FileNotFoundError", fs |-> f]
  ELSE IF i \in f.log THEN [raised |-> "FileExistsError", fs |-> f]
  ELSE [raised |-> "", fs |-> [f EXCEPT !.log = @ \cup {i}]]

\* The runs of the program that may be under way at once for one model
\* name.
Runs == 1..MaxRuns

\* No call of _prepare_directories made by a run yet.
NoCall == [at |-> "none"]

\* A call is under way.
InCall(c) == c.at \notin {"none", "returned", "raised"}

\* Nothing removed by a step.
Nothing == [dir |-> "", entry |-> -1]

\* The call c holds the directory d: it is in shutil.rmtree(d) with the
\* result of os.lstat or the descriptor of d.
HoldsDir(c, d) ==
  /\ c.at \in {"open", "scandir", "entry_stat", "entry_open", "entry_rmdir"}
  /\ c.existing[c.k] = d

\* The call c holds the log directory e: it is in shutil.rmtree with the
\* result of entry.stat for e.
HoldsEntry(c, e) == c.at = "entry_open" /\ c.entry = e /\ ~c.gone

\* The directories as a run may find them: the model and logs directories
\* present or not, the logs numbered as earlier calls leave them.
InitDirs ==
  /\ fs \in {[models |-> m, logs |-> l, log |-> IF l THEN 0..(k - 1) ELSE {}] :
               m \in BOOLEAN, l \in BOOLEAN, k \in 0..MaxLogs}
  /\ dir_calls = 0 /\ dir_last = [r \in Runs |-> NoCall]
  /\ ShapesIdle /\ TrainerIdle /\ TesterIdle /\ DataIdle

\* The calls after run r took a step that changed its call to c and removed
\* rm: the other calls under way overlap it (what the directories were
\* before them and the answer they read, which the code uses no more, are
\* then of no use and dropped), what they hold of a directory removed is of
\* a directory gone, and a call that ended earlier is no longer the last
\* thing that happened.
AfterStep(r, c, rm) ==
  [q \in Runs |->
     IF q = r THEN c
     ELSE IF InCall(dir_last[q])
     THEN [dir_last[q] EXCEPT
             !.overlapped = TRUE, !.before = <<>>, !.answer = "",
             !.gone = IF rm.dir = "" THEN @
                      ELSE @ \/ HoldsDir(dir_last[q], rm.dir),
             !.entry_gone = IF rm.entry = -1 THEN @
                            ELSE @ \/ HoldsEntry(dir_last[q], rm.entry)]
     ELSE NoCall]

\* The call of run r raises e.
Raise(c, e, f) == [c EXCEPT !.at = "raised", !.raised = e, !.after = f]

\* A call of _prepare_directories that erases nothing, whatever resume.
Call_resumed(r, resume) ==
  /\ ~InCall(dir_last[r]) /\ dir_calls < MaxDirCalls
  /\ Cardinality(fs.log) <= MaxLogs
  /\ dir_calls' = dir_calls + 1
  /\ dir_last' = AfterStep(r,
       [at |-> "while", resume |-> resume,
        k |-> 1, existing |-> <<>>, answer |-> "", gone |-> FALSE,
        listed |-> {}, entry |-> -1, entry_gone |-> FALSE, i |-> 0,
        log |-> -1,
        raised |-> "", at_choice |-> {}, after |-> <<>>,
        overlapped |-> \E q \in Runs \ {r} : InCall(dir_last[q]),
        before |-> IF \E q \in Runs \ {r} : InCall(dir_last[q]) THEN <<>>
                   ELSE fs], Nothing)
  /\ UNCHANGED <<fs, shape_vars, trainer_vars, tester_vars, data_vars>>

\* A run of the program calls _prepare_directories(model_name, resume).
Call(r, resume) ==
  /\ ~InCall(dir_last[r]) /\ dir_calls < MaxDirCalls
  /\ Cardinality(fs.log) <= MaxLogs
  /\ dir_calls' = dir_calls + 1
  /\ dir_last' = AfterStep(r,
       [at |-> IF resume THEN "while" ELSE "exists", resume |-> resume,
        k |-> 1, existing |-> <<>>, answer |-> "", gone |-> FALSE,
        listed |-> {}, entry |-> -1, entry_gone |-> FALSE, i |-> 0,
        log |-> -1,
        raised |-> "", at_choice |-> {}, after |-> <<>>,
        overlapped |-> \E q \in Runs \ {r} : InCall(dir_last[q]),
        before |-> IF \E q \in Runs \ {r} : InCall(dir_last[q]) THEN <<>>
                   ELSE fs], Nothing)
  /\ UNCHANGED <<fs, shape_vars, trainer_vars, tester_vars, data_vars>>

\* for d in dirs: if os.path.exists(d): existing.append(d)
Exists(r) ==
  /\ dir_last[r].at = "exists"
  /\ LET c == dir_last[r]
         d == dirs[c.k]
         e == IF path_exists(fs, d) THEN Append(c.existing, d) ELSE c.existing
     IN  dir_last' = AfterStep(r,
           IF c.k < Len(dirs) THEN [c EXCEPT !.k = @ + 1, !.existing = e]
           ELSE [c EXCEPT !.k = 1, !.existing = e,
                          !.at = IF e # <<>> THEN "input" ELSE "makedirs"],
           Nothing)
  /\ UNCHANGED <<fs, dir_calls, shape_vars, trainer_vars, tester_vars,
                 data_vars>>

\* c = input(); if not c in ('y', 'Y', ''): quit()
Input(r, c) ==
  /\ dir_last[r].at = "input"
  /\ LET kept == IF dir_last[r].overlapped THEN "" ELSE c
     IN  dir_last' = AfterStep(r,
           IF c \in {"y", "Y", ""}
           THEN [dir_last[r] EXCEPT !.answer = kept, !.at = "lstat", !.k = 1]
           ELSE [Raise(dir_last[r], "SystemExit", fs) EXCEPT !.answer = kept],
           Nothing)
  /\ UNCHANGED <<fs, dir_calls, shape_vars, trainer_vars, tester_vars,
                 data_vars>>

\* for d in existing: shutil.rmtree(d), its os.lstat(path).
Lstat(r) ==
  /\ dir_last[r].at = "lstat"
  /\ LET c == dir_last[r]
         x == lstat(fs, c.existing[c.k])
     IN  dir_last' = AfterStep(r,
           IF x.raised # "" THEN Raise(c, x.raised, fs)
           ELSE [c EXCEPT !.at = "open", !.gone = FALSE], Nothing)
  /\ UNCHANGED <<fs, dir_calls, shape_vars, trainer_vars, tester_vars,
                 data_vars>>

\* shutil.rmtree(d), its os.open(path) and the comparison of what it opened
\* with what os.lstat saw: 'Cannot call rmtree on a symbolic link' when
\* they differ.
Open(r) ==
  /\ dir_last[r].at = "open"
  /\ LET c == dir_last[r]
         x == open(fs, c.existing[c.k])
     IN  IF x.raised # ""
         THEN dir_last' = AfterStep(r, Raise(c, x.raised, fs), Nothing)
         ELSE \E same \in samestat(c.gone) :
                dir_last' = AfterStep(r,
                  IF same THEN [c EXCEPT !.at = "scandir", !.gone = FALSE]
                  ELSE Raise(c, "OSError", fs), Nothing)
  /\ UNCHANGED <<fs, dir_calls, shape_vars, trainer_vars, tester_vars,
                 data_vars>>

\* shutil.rmtree(d), the listing of the entries of d: os.scandir(topfd).
Scandir(r) ==
  /\ dir_last[r].at = "scandir"
  /\ LET c == dir_last[r]
         entries == scandir(fs, c.existing[c.k], c.gone)
     IN  dir_last' = AfterStep(r,
           [c EXCEPT !.listed = entries,
                     !.at = IF entries # {} THEN "entry_stat" ELSE "rmdir"],
           Nothing)
  /\ UNCHANGED <<fs, dir_calls, shape_vars, trainer_vars, tester_vars,
                 data_vars>>

\* shutil.rmtree(d), for entry in entries: entry.stat(), for the entry the
\* listing gave next, which is any of those left.
EntryStat(r) ==
  /\ dir_last[r].at = "entry_stat"
  /\ \E e \in dir_last[r].listed :
       LET c == dir_last[r]
           x == entry_stat(fs, c.gone, e)
       IN  dir_last' = AfterStep(r,
             IF x.raised # "" THEN Raise(c, x.raised, fs)
             ELSE [c EXCEPT !.at = "entry_open", !.entry = e,
                            !.listed = @ \ {e}, !.entry_gone = FALSE],
             Nothing)
  /\ UNCHANGED <<fs, dir_calls, shape_vars, trainer_vars, tester_vars,
                 data_vars>>

\* shutil.rmtree(d), for entry in entries: os.open(entry.name, dir_fd=topfd)
\* and the comparison of what it opened with what entry.stat saw; the log
\* directory opened has no entry to remove.
EntryOpen(r) ==
  /\ dir_last[r].at = "entry_open"
  /\ LET c == dir_last[r]
         x == entry_open(fs, c.gone, c.entry)
     IN  IF x.raised # ""
         THEN dir_last' = AfterStep(r, Raise(c, x.raised, fs), Nothing)
         ELSE \E same \in samestat(c.entry_gone) :
                dir_last' = AfterStep(r,
                  IF same
                  THEN [c EXCEPT !.at = "entry_rmdir", !.entry_gone = FALSE]
                  ELSE Raise(c, "OSError", fs), Nothing)
  /\ UNCHANGED <<fs, dir_calls, shape_vars, trainer_vars, tester_vars,
                 data_vars>>

\* shutil.rmtree(d), for entry in entries: os.rmdir(entry.name,
\* dir_fd=topfd).
EntryRmdir(r) ==
  /\ dir_last[r].at = "entry_rmdir"
  /\ LET c == dir_last[r]
         x == entry_rmdir(fs, c.gone, c.entry)
     IN  /\ fs' = x.fs
         /\ dir_last' = AfterStep(r,
              IF x.raised # "" THEN Raise(c, x.raised, x.fs)
              ELSE [c EXCEPT !.entry = -1,
                             !.at = IF c.listed # {} THEN "entry_stat"
                                    ELSE "rmdir"],
              IF x.raised # "" THEN Nothing
              ELSE [dir |-> "", entry |-> c.entry])
  /\ UNCHANGED <<dir_calls, shape_vars, trainer_vars, tester_vars, data_vars>>

\* shutil.rmtree(d), the directory d itself: os.close(fd); os.rmdir(path).
Rmdir(r) ==
  /\ dir_last[r].at = "rmdir"
  /\ LET c == dir_last[r]
         d == c.existing[c.k]
         x == rmdir(fs, d)
     IN  /\ fs' = x.fs
         /\ dir_last' = AfterStep(r,
              IF x.raised # "" THEN Raise(c, x.raised, x.fs)
              ELSE IF c.k < Len(c.existing)
              THEN [c EXCEPT !.at = "lstat", !.k = @ + 1, !.gone = FALSE]
              ELSE [c EXCEPT !.at = "makedirs", !.k = 1, !.gone = FALSE],
              IF x.raised # "" THEN Nothing
              ELSE [dir |-> d, entry |-> -1])
  /\ UNCHANGED <<dir_calls, shape_vars, trainer_vars, tester_vars, data_vars>>

\* for d in dirs: os.makedirs(d)
Makedirs(r) ==
  /\ dir_last[r].at = "makedirs"
  /\ LET c == dir_last[r]
         x == makedirs(fs, dirs[c.k])
     IN  /\ fs' = x.fs
         /\ dir_last' = AfterStep(r,
              IF x.raised # "" THEN Raise(c, x.raised, x.fs)
              ELSE IF c.k < Len(dirs) THEN [c EXCEPT !.k = @ + 1]
              ELSE [c EXCEPT !.at = "while", !.k = 1], Nothing)
  /\ UNCHANGED <<dir_calls, shape_vars, trainer_vars, tester_vars, data_vars>>

\* i = 0; while os.path.exists(os.path.join(logs_path, str(i))): i += 1
While(r) ==
  /\ dir_last[r].at = "while"
  /\ dir_last' = AfterStep(r,
       IF log_exists(fs, dir_last[r].i) THEN [dir_last[r] EXCEPT !.i = @ + 1]
       ELSE [dir_last[r] EXCEPT !.at = "mkdir"], Nothing)
  /\ UNCHANGED <<fs, dir_calls, shape_vars, trainer_vars, tester_vars,
                 data_vars>>

\* os.mkdir(log_path); return (model_path, log_path, logs_path)
Mkdir(r) ==
  /\ dir_last[r].at = "mkdir"
  /\ LET c == dir_last[r]
         x == mkdir(fs, c.i)
     IN  /\ fs' = x.fs
         /\ dir_last' = AfterStep(r,
              IF x.raised # "" THEN Raise(c, x.raised, x.fs)
              ELSE [c EXCEPT !.at = "returned", !.log = c.i,
                             !.at_choice = fs.log, !.after = x.fs], Nothing)
  /\ UNCHANGED <<dir_calls, shape_vars, trainer_vars, tester_vars, data_vars>>

NextDirs ==
  \E r \in Runs :
    \/ \E resume \in BOOLEAN : Call(r, resume)
    \/ Exists(r)
    \/ \E c \in {"y", "Y", "", "n"} : Input(r, c)
    \/ Lstat(r)
    \/ Open(r)
    \/ Scandir(r)
    \/ EntryStat(r)
    \/ EntryOpen(r)
    \/ EntryRmdir(r)
    \/ Rmdir(r)
    \/ Makedirs(r)
    \/ While(r)
    \/ Mkdir(r)

SpecDirs == InitDirs /\ [][NextDirs]_vars

\* --------------------------------------------- claims on the directories
\* The log directories are numbered from 0 without a gap.
Consecutive(S) == \A k \in S : \A j \in 0..(k - 1) : j \in S

\* The calls of a sequence of calls: a call that ended with no step of
\* another run between its first and its last step, begun with the log
\* directories numbered as the calls of a sequence leave them.
Sequential(c) ==
  /\ c.at \in {"returned", "raised"} /\ ~c.overlapped
  /\ Consecutive(c.before.log)

\* C12 as stated: in a sequence of calls, a call that returns returns a log
\* directory that did not exist when the call began, with a number greater
\* than that of every log directory present when the number was chosen.
C12_FreshAndIncreasing ==
  \A r \in Runs :
    LET l == dir_last[r]
    IN  (Sequential(l) /\ l.at = "returned") =>
          /\ l.log \notin l.before.log
          /\ \A k \in l.at_choice : l.log > k

\* C12 amended: every call that returns has created the log directory it
\* returns, which did not exist at the moment its number was chosen.  In a
\* sequence of calls the number is greater than that of every log directory
\* present at that moment, and the log directories stay numbered from 0
\* without a gap; with resume set the log directory did not exist when the
\* call began either; without resume the model and logs directories were
\* erased and created again first, so that the call returns log directory
\* 0, which may have existed when the call began.
C12_NewAfterErase ==
  \A r \in Runs :
    LET l == dir_last[r]
    IN  /\ l.at = "returned" =>
             /\ l.log \notin l.at_choice
             /\ l.after.logs /\ l.log \in l.after.log
             /\ l.after.log = l.at_choice \cup {l.log}
        /\ (Sequential(l) /\ l.at = "returned") =>
             /\ \A k \in l.at_choice : l.log > k
             /\ Consecutive(l.after.log)
             /\ (l.resume =>
                   /\ l.at_choice = l.before.log
                   /\ l.log \notin l.before.log
                   /\ l.after.models = l.before.models)
             /\ (~l.resume =>
                   /\ l.log = 0
                   /\ l.at_choice = {}
                   /\ l.after = [models |-> TRUE, logs |-> TRUE, log |-> {0}])

C12_Witness ==
  \E r \in Runs :
    LET l == dir_last[r]
    IN  /\ Sequential(l) /\ l.at = "returned" /\ ~l.resume
        /\ l.before.log = {0, 1} /\ l.log = 0
        /\ dir_calls = 2

\* ------------------------------------------------- claims on the trainer
\* The loss, the sub-network and the order of creation each group stands for.
OwnLoss ==
  [dA |-> "discriminator_A_loss", dB |-> "discriminator_B_loss",
   gAB |-> "generator_AB_loss", gBA |-> "generator_BA_loss"]

OwnNet ==
  [dA |-> "Discriminator_A", dB |-> "Discriminator_B",
   gAB |-> "Generator_AB", gBA |-> "Generator_BA"]

GroupVars(g) == {v \in DOMAIN store : v[1] = OwnNet[g]}

\* The updates the current (or last) step applied to variable v.
NewUpdates(v) == SubSeq(store[v], Len(pre.store[v]) + 1, Len(store[v]))

Unchanged == store = pre.store /\ opt_state = pre.opt_state

StepReturned == pc = 0 /\ step_no >= 1

AllGroupsHaveVars == \A g \in Groups : GroupVars(g) # {}

\* The run of the graph failed or was interrupted.
RunFailed == pc = -1 /\ failed_at = RunPc

\* C1: in one step every variable of a group is written at most once (once
\* when the step returns), by the optimizer stored under the group's key,
\* which writes no other group, with a gradient of the group's own loss
\* (the model output tf.identity named so) with respect to that variable.
C1_OwnLossOwnParamsOwnOptimizer ==
  /\ \A g \in Groups : \A v \in GroupVars(g) :
       /\ Len(NewUpdates(v)) <= 1
       /\ (StepReturned => Len(NewUpdates(v)) = 1)
       /\ \A i \in 1..Len(store[v]) :
            LET u == store[v][i]
            IN  /\ u.opt = optimizers[g]
                /\ \A h \in Groups \ {g} : optimizers[h] # u.opt
                /\ ~u.grad.none
                /\ u.grad.target.name = OwnLoss[g]
                /\ u.grad.wrt = v
  /\ \A g \in DOMAIN gradient : \A i \in 1..Len(gradient[g]) :
       /\ ~gradient[g][i].none
       /\ gradient[g][i].target.name = OwnLoss[g]
       /\ gradient[g][i].wrt \in GroupVars(g)
  /\ \A j \in 1..Len(graph) :
       /\ graph[j].opt = optimizers[graph[j].group]
       /\ \A i \in 1..Len(graph[j].pairs) :
            /\ graph[j].pairs[i][1].target.name = OwnLoss[graph[j].group]
            /\ graph[j].pairs[i][1].wrt = graph[j].pairs[i][2]
            /\ graph[j].pairs[i][2] \in GroupVars(graph[j].group)

C1_Witness ==
  /\ StepReturned /\ AllGroupsHaveVars
  /\ \A v \in DOMAIN store : Len(NewUpdates(v)) = 1

\* C2 as stated: the forward pass runs once in a step, every gradient is
\* taken at the values the variables had when the step began, and all four
\* gradients have been extracted before any update is applied.
C2_OneForwardGradientsBeforeUpdates ==
  /\ tape.runs <= 1
  /\ (StepReturned => tape.runs = 1)
  /\ \A v \in DOMAIN store : \A i \in 1..Len(NewUpdates(v)) :
       NewUpdates(v)[i].grad.at = Values(pre.store)
  /\ (~Unchanged =>
        /\ executed # <<>>
        /\ \A j \in 1..Len(graph) : executed[1].calls[j].grad)

\* C2 amended: the graph of a step holds one forward pass; the statements
\* that take the four gradients are traced before any apply_gradients
\* statement; when the graph runs, every update uses a gradient evaluated
\* at the values the variables had when the step began, and a variable is
\* updated after its own group's gradient is computed, not after the other
\* groups' gradients; a step that returns has computed all four.
C2_GradientsAtStartOfStepValues ==
  /\ tape.runs <= 1
  /\ (StepReturned \/ pc = RunPc => tape.runs = 1)
  /\ \A v \in DOMAIN store : \A i \in 1..Len(NewUpdates(v)) :
       NewUpdates(v)[i].grad.at = Values(pre.store)
  /\ (Running /\ graph # <<>> => DOMAIN gradient = Groups)
  /\ (executed # <<>> =>
        /\ (executed[1].forward => executed[1].watched = Values(pre.store))
        /\ \A j \in 1..Len(graph) :
             /\ executed[1].calls[j].grad => executed[1].forward
             /\ executed[1].calls[j].pairs # {} => executed[1].calls[j].grad)
  /\ (StepReturned =>
        /\ executed # <<>>
        /\ \A j \in 1..Len(graph) : executed[1].calls[j].grad)

C2_Witness ==
  /\ RunFailed /\ step_no = 2 /\ AllGroupsHaveVars
  /\ \E j, k \in 1..Len(graph) :
       /\ graph[j].group = "dA" /\ graph[k].group = "gBA"
       /\ executed[1].calls[j].pairs = 1..Len(graph[j].pairs)
       /\ ~executed[1].calls[k].grad
  /\ \A v \in GroupVars("dA") :
       /\ Len(pre.store[v]) = 1 /\ Len(NewUpdates(v)) = 1
       /\ NewUpdates(v)[1].grad.at = Values(pre.store)

\* The orders the four calls of the graph can run in.
Orders == {p \in [1..4 -> 1..4] : \A i, j \in 1..4 : p[i] = p[j] => i = j}

\* The whole graph run with its calls in the order p, from the state and
\* the gradients of the step.
ApplyInOrder(p, st, os) ==
  LET g == [i \in 1..Len(graph) |-> graph[p[i]]]
  IN  run_graph(g, FullGraphProgress(g).calls, Values(st), st, os)

\* C3: when a step has returned, the parameters and the optimizer states
\* are those that each of the 24 orders of the four updates gives from the
\* state at the start of the step.
C3_UpdatesCommute ==
  StepReturned =>
    \A p \in Orders :
      ApplyInOrder(p, pre.store, pre.opt_state)
        = [store |-> store, opt_state |-> opt_state]

C3_Witness ==
  /\ StepReturned /\ step_no = 2 /\ AllGroupsHaveVars
  /\ \A v \in DOMAIN store : Len(store[v]) = 2
  /\ Cardinality(Orders) = 24 /\ Len(graph) = 4

\* C4 as stated: a step that failed left no update behind.
C4_AllOrNothing ==
  pc = -1 => Unchanged

\* C4 amended: while the body is traced nothing is updated, so a step that
\* is interrupted or raises at any statement of the body, the
\* apply_gradients calls included, leaves no update behind.  A step that
\* fails or is interrupted while the graph runs keeps the updates of the
\* operations that ran and nothing is rolled back: each variable holds at
\* most one update of the step, the variables updated are those of the
\* update operations that ran (any of them, of any group), and an
\* optimizer's iterations advanced only after all its variables were
\* updated; a step that raises when the run is over has updated every
\* variable.  A step that returns has updated every variable once.
C4_TraceUpdatesNothingRunKeepsUpdates ==
  /\ (Running => Unchanged)
  /\ (pc = -1 /\ failed_at \in 1..Len(StepOrder) => Unchanged)
  /\ (RunFailed =>
        /\ ~Unchanged => executed[1].forward
        /\ \A j \in 1..Len(graph) :
             LET e == executed[1].calls[j]
                 o == graph[j].opt
             IN  /\ \A i \in 1..Len(graph[j].pairs) :
                      Len(NewUpdates(graph[j].pairs[i][2]))
                        = IF i \in e.pairs THEN 1 ELSE 0
                 /\ opt_state[o].iterations
                      = pre.opt_state[o].iterations + IF e.iter THEN 1 ELSE 0
                 /\ (e.iter => e.pairs = 1..Len(graph[j].pairs)))
  /\ (StepReturned => \A v \in DOMAIN store : Len(NewUpdates(v)) = 1)

C4_Witness ==
  /\ RunFailed /\ AllGroupsHaveVars
  /\ \A v \in GroupVars("dA") : Len(NewUpdates(v)) = 0
  /\ \A v \in GroupVars("dB") : Len(NewUpdates(v)) = 1
  /\ Cardinality({v \in GroupVars("gAB") : Len(NewUpdates(v)) = 1}) = 1
  /\ Cardinality({v \in GroupVars("gAB") : Len(NewUpdates(v)) = 0}) = 1
  /\ opt_state[optimizers["dB"]].iterations
       = pre.opt_state[optimizers["dB"]].iterations

\* The gradient statement of group g.
GradientStmt(g) ==
  CHOOSE k \in 1..Len(StepOrder) :
    StepOrder[k].op = "gradient" /\ StepOrder[k].params = g

\* C5: with an empty parameter group, a step does not get past the gradient
\* statement of the (first) empty group: it is at or before it, or has
\* failed there or before.
C5_EmptyGroupFailsAtGradient ==
  \A g \in Groups :
    (params[g] = <<>> /\ step_no >= 1) =>
      \/ pc \in 1..GradientStmt(g)
      \/ pc = -1 /\ failed_at <= GradientStmt(g)

\* C6: the forward pass returns (fake_A, fake_B, discriminator_A_loss,
\* discriminator_B_loss, generator_AB_loss, generator_BA_loss) with
\* fake_A = generator_BA(B), fake_B = generator_AB(A), decision_A the
\* discriminator_A logits of [A, fake_A] and decision_B the discriminator_B
\* logits of [B, fake_B] concatenated along the batch axis (A and B the
\* preprocessed batches), the discriminator_A and generator_BA losses taken
\* from decision_A, the discriminator_B and generator_AB losses from
\* decision_B.
C6_CrossWiredLosses ==
  outputs # <<>> =>
    LET n == Len(input_batch[1].val)
        real_A == [i \in 1..n |-> <<"resize", input_batch[1].val[i]>>]
        real_B == [i \in 1..n |-> <<"resize", input_batch[2].val[i]>>]
        fake_A == [i \in 1..n |-> <<"Generator_BA", real_B[i]>>]
        fake_B == [i \in 1..n |-> <<"Generator_AB", real_A[i]>>]
        decision_A == [i \in 1..(2 * n) |->
          <<"Discriminator_A", IF i <= n THEN real_A[i] ELSE fake_A[i - n]>>]
        decision_B == [i \in 1..(2 * n) |->
          <<"Discriminator_B", IF i <= n THEN real_B[i] ELSE fake_B[i - n]>>]
    IN  /\ Len(outputs) = 6
        /\ [i \in 1..6 |-> outputs[i].name] =
             <<"fake_A", "fake_B", "discriminator_A_loss",
               "discriminator_B_loss", "generator_AB_loss", "generator_BA_loss">>
        /\ outputs[1].val = fake_A
        /\ outputs[2].val = fake_B
        /\ outputs[3].val = <<"DiscriminatorLoss", decision_A>>
        /\ outputs[4].val = <<"DiscriminatorLoss", decision_B>>
        /\ outputs[5].val = <<"GeneratorLoss", decision_B>>
        /\ outputs[6].val = <<"GeneratorLoss", decision_A>>
        /\ outputs[5].deps = {"Generator_AB", "Discriminator_B"}
        /\ outputs[6].deps = {"Generator_BA", "Discriminator_A"}

C6_Witness ==
  /\ outputs # <<>> /\ Len(input_batch[1].val) = 2
  /\ outputs[5].val[1] = "GeneratorLoss"
  /\ outputs[5].val[2][4] = <<"Discriminator_B", <<"Generator_AB", <<"resize", <<"A", 2>>>>>>>>

\* ------------------------------------------------------ claims on shapes
\* C7 as stated: the fake images returned by the composite model have the
\* shape of the input batches.
C7_FakeShapeIsInputShape ==
  cgan_out # <<>> => cgan_out[1] = in_shape /\ cgan_out[2] = in_shape

\* C7 amended: whatever H and W of the input, the composite model returns
\* fake_A and fake_B of shape (batch, 256, 256, 3), the size the
\* preprocessing resizes to; they have the input's shape only for 256 x 256
\* inputs, and a pair of batch size 2 of 16 x 16 images gives (2,256,256,3).
C7_FakeShapeIsPreprocessedShape ==
  cgan_out # <<>> =>
    /\ cgan_out[1] = <<in_shape[1], 256, 256, 3>>
    /\ cgan_out[2] = <<in_shape[1], 256, 256, 3>>
    /\ (cgan_out[1] = in_shape <=> in_shape[2] = 256 /\ in_shape[3] = 256)
    /\ (in_shape = <<2, 16, 16, 3>> => cgan_out[1] = <<2, 256, 256, 3>>)

C7_Witness ==
  /\ in_shape = <<2, 16, 16, 3>>
  /\ cgan_out = <<(<<2, 256, 256, 3>>), (<<2, 256, 256, 3>>)>>

\* C8: for every valid input height H and width W (those the two stride-2
\* encoding blocks halve exactly: the multiples of 4), the Generator's output
\* has spatial size H x W and 3 channels: the first encoding block keeps the
\* size, the two stride-2 'same' blocks each halve it, the 9 residual blocks
\* keep it, the two transposed blocks each double it and the final
\* convolution keeps it.
C8_GeneratorKeepsShape ==
  /\ ValidShape(Generator_stack, in_shape) <=>
       in_shape[2] % 4 = 0 /\ in_shape[3] % 4 = 0
  /\ gen_out # <<>> =>
       LET n == in_shape[1]
           h == in_shape[2]
           w == in_shape[3]
           upto(k) == StackShape(SubSeq(Generator_stack, 1, k), in_shape)
       IN  /\ Len(Generator_stack) = 3 + 9 + 4
           /\ upto(1) = <<n, h, w, 64>>
           /\ upto(2) = <<n, h \div 2, w \div 2, 128>> /\ 2 * upto(2)[2] = h
           /\ upto(3) = <<n, h \div 4, w \div 4, 256>> /\ 4 * upto(3)[3] = w
           /\ \A k \in 4..12 : upto(k) = upto(3)
           /\ upto(13) = <<n, h \div 2, w \div 2, 128>>
           /\ upto(14) = <<n, h, w, 64>>
           /\ upto(15) = <<n, h, w, 3>>
           /\ gen_out[1] = in_shape

C8_Witness ==
  /\ in_shape = <<1, 300, 256, 3>> /\ gen_out = <<in_shape>>

\* C9 as stated: the Discriminator's output map has 1 channel and the
\* input's spatial size divided by 2^3 (rounded up).
C9_DiscriminatorDividesBy8 ==
  disc_out # <<>> =>
    disc_out[1] = <<in_shape[1], (in_shape[2] + 7) \div 8,
                    (in_shape[3] + 7) \div 8, 1>>

\* C9 amended: the Discriminator's output map has 1 channel and the
\* input's spatial size divided by 2^4 (rounded up): the input block and
\* the three other blocks are four stride-2 convolutions, so that a
\* 256 x 256 image gives a 16 x 16 map.
C9_DiscriminatorDividesBy16 ==
  disc_out # <<>> =>
    /\ disc_out[1] = <<in_shape[1], (in_shape[2] + 15) \div 16,
                       (in_shape[3] + 15) \div 16, 1>>
    /\ Cardinality({i \in 1..Len(Discriminator_stack) :
                      Discriminator_stack[i].stride = 2}) = 4

C9_Witness ==
  /\ in_shape = <<2, 256, 256, 3>> /\ disc_out = <<(<<2, 16, 16, 1>>)>>

====
